---- MODULE Spec2Model ----
(***************************************************************************)
(* Pricing, balance and settlement engine of deliverydk.                  *)
(*                                                                         *)
(* The store is a Postgres database reached through its REST interface.    *)
(* Every REST request is one statement, hence one atomic step; a handler   *)
(* that awaits several requests is several steps, and other sessions may   *)
(* act between them.  The settlement trigger runs inside the transaction   *)
(* of the UPDATE on orders that fires it; its statements run under READ    *)
(* COMMITTED, so the EXISTS test and the INSERT/UPDATE that follows it are *)
(* two steps of that transaction.                                          *)
(*                                                                         *)
(* Money is counted in whole reais (DECIMAL(10,2) values with no cents).   *)
(***************************************************************************)
EXTENDS Integers, Sequences, FiniteSets

(***************************************************************************)
(* Bounds of the model.                                                    *)
(***************************************************************************)
\* Rows the partner_transactions table may hold.
MaxTransactions == 3
Partners == {"p1", "p2"}
Products == {"x"}
OrderIds == {"o1", "o2"}
\* The ids the store gives the withdrawals, in the order it creates them.
WithdrawalKeys == <<"w1", "w2">>
WithdrawalIds == {WithdrawalKeys[i] : i \in 1..Len(WithdrawalKeys)}
\* Browser sessions showing an orders page (admin panel, partner panel).
OrderSessions == {"admin", "partner"}
\* Browser tabs of partner p1 showing the Financeiro page.
PartnerSessions == {"tab1", "tab2"}
SessionPartner(s) == "p1"
\* Browser sessions of the admin showing the payments page.
AdminSessions == {"adm", "adm2"}
\* Amounts a partner may type into the withdrawal form.
Amounts == {60, 100}

NULL == "null"
NoRow == "norow"

(***************************************************************************)
(* Order pipeline as the pages offer it.                                   *)
(***************************************************************************)
OrderStatus ==
  {"pending", "confirmed", "preparing", "ready", "delivering", "delivered", "cancelled"}

STATUS_FLOW(s) ==
  CASE s = "pending" -> {"confirmed", "cancelled"}
    [] s = "confirmed" -> {"preparing", "cancelled"}
    [] s = "preparing" -> {"ready", "cancelled"}
    [] s = "ready" -> {"delivering", "cancelled"}
    [] s = "delivering" -> {"delivered"}
    [] s = "delivered" -> {}
    [] s = "cancelled" -> {}

(***************************************************************************)
(* Carts a storefront customer may check out: line items with the unit     *)
(* price frozen at checkout.                                               *)
(***************************************************************************)
Item(prod, price, qty) == [product_id |-> prod, unit_price |-> price, quantity |-> qty]

Carts ==
  { <<Item("x", 30, 10)>>,
    <<Item("x", 28, 3), Item("x", 15, 2)>>,
    <<Item("x", 28, 3)>>,
    <<Item("x", 15, 1)>> }

\* Cost prices the admin may give a product.
CostPrices == {20, 30}

\* Selling prices a partner may type in, and minimum amounts the admin may set.
SellingPrices == {25, 35}
MinAmounts == {0, 50, 100}

\* The partner whose storefront is open in the customer's browser, and the
\* most units of a product the customer puts in the cart.
StorefrontPartner == "p1"
MaxQuantity == 2

VARIABLES
  products,              \* products.price: the admin's cost price of each product
  orders,                \* orders and their order_items
  partner_balances,      \* partner_balances, one row per partner
  partner_transactions,  \* partner_transactions, append-only
  partner_withdrawals,   \* partner_withdrawals, row i has id i
  payment_settings,      \* payment_settings rows
  inflight,              \* per order: the open transaction of an UPDATE to 'delivered'
  lastUpdate,            \* OLD and NEW of the latest UPDATE on orders
  checkout,              \* per order: the cart createOrder has still to insert
  orderCache,            \* per orders-page session: the order statuses it shows
  balanceCache,          \* per partner tab: the available_balance it shows
  request,               \* per partner tab: where its withdrawal request stands
  withdrawalCache,       \* per admin session: the withdrawal statuses it lists
  selectedWithdrawal,    \* per admin session: the withdrawal its modal shows
  resolving,             \* per admin session: where its resolution stands
  partner_products,      \* partner_products rows: a partner's selling price of a product
  productCache,          \* per partner tab: the products rows useAllProducts gave it
  settingsCache,         \* per partner tab: the payment_settings row it was given
  store_info,            \* settings 'store_info': value.is_open
  business_hours,        \* settings 'business_hours': today's hours, if the row is there
  now,                   \* the time of day, <<hours, minutes>>
  storeSettings,         \* storefront: the settings useStoreSettings gave it
  menuIsOpen,            \* storefront: the memoised isOpen
  menuCart,              \* storefront: the cart
  isSubmitting,          \* storefront: the order handleSubmitOrder is placing
  storeInfoCache,        \* what useStoreInfo gave useIsStoreOpen
  businessHoursCache,    \* what useBusinessHours gave useIsStoreOpen
  storeOpen              \* what useIsStoreOpen last returned

settings == <<store_info, business_hours, now>>
menu == <<storeSettings, menuIsOpen, menuCart, isSubmitting>>
storeStatus == <<storeInfoCache, businessHoursCache, storeOpen>>
store == <<settings, menu, storeStatus>>
dbVars == <<products, orders, partner_balances, partner_transactions,
            partner_withdrawals, payment_settings, inflight, lastUpdate>>
partnerUi == <<balanceCache, request>>
adminUi == <<withdrawalCache, selectedWithdrawal, resolving>>
pricing == <<partner_products, productCache, settingsCache>>
vars == <<dbVars, checkout, orderCache, partnerUi, adminUi, pricing, store>>

NoOrder == [status |-> NoRow, partner_id |-> NULL, items |-> <<>>]
NoTx == [pc |-> "none", profit |-> 0, session |-> NULL]
NoRequest == [pc |-> "idle", amount |-> 0]
NoSelection == [id |-> NULL, status |-> NoRow]
NotResolving == [pc |-> "idle", id |-> NULL, old |-> NoRow]
NoUpdate == [id |-> NULL, old |-> NoRow, new |-> NoRow]

\* SettingsModal's defaults.
DefaultMinWithdrawal == 50
DefaultMinDays == 7

\* Times of day, and the business hours the admin may have saved for a day;
\* a closing time before the opening time is a closing after midnight.
Clock == {<<1, 0>>, <<2, 0>>, <<10, 30>>, <<18, 0>>, <<23, 30>>}

BusinessHours ==
  [enabled : BOOLEAN, open : Clock, close : Clock]

\* The store as the admin has set it up: open by hand, 18:00 to 02:00.
InitSettings ==
  /\ store_info = TRUE
  /\ business_hours = {[enabled |-> TRUE, open |-> <<18, 0>>, close |-> <<2, 0>>]}
  /\ now = <<18, 0>>

\* Any setting of the store at any time of day.
AnySettings ==
  /\ store_info \in BOOLEAN
  /\ business_hours \in {{}} \cup {{h} : h \in BusinessHours}
  /\ now \in Clock

\* Nothing loaded yet, the cart empty.
InitSessions ==
  /\ storeSettings = {}
  /\ menuIsOpen = FALSE
  /\ menuCart = <<>>
  /\ isSubmitting = NULL
  /\ storeInfoCache = {}
  /\ businessHoursCache = {}
  /\ storeOpen = [isOpen |-> FALSE, isLoading |-> TRUE]

InitData ==
  /\ products \in [Products -> CostPrices]
  /\ orders = [o \in OrderIds |-> NoOrder]
  /\ partner_balances = {}
  /\ partner_transactions = <<>>
  /\ partner_withdrawals = <<>>
  /\ payment_settings = {[min_withdrawal_amount |-> DefaultMinWithdrawal,
                           min_days_to_withdraw |-> DefaultMinDays]}
  /\ inflight = [o \in OrderIds |-> NoTx]
  /\ lastUpdate = NoUpdate
  /\ checkout = [o \in OrderIds |-> <<>>]
  /\ orderCache = [s \in OrderSessions |-> [o \in OrderIds |-> NoRow]]
  /\ balanceCache = [s \in PartnerSessions |-> 0]
  /\ request = [s \in PartnerSessions |-> NoRequest]
  /\ withdrawalCache = [s \in AdminSessions |-> [w \in WithdrawalIds |-> NoRow]]
  /\ selectedWithdrawal = [s \in AdminSessions |-> NoSelection]
  /\ resolving = [s \in AdminSessions |-> NotResolving]
  /\ partner_products = {}
  /\ productCache = [s \in PartnerSessions |-> {}]
  /\ settingsCache = [s \in PartnerSessions |-> {}]

Init == InitData /\ InitSettings /\ InitSessions

\* The store-open decisions are examined from every setting of the store.
InitStoreOpen == InitData /\ AnySettings /\ InitSessions

(***************************************************************************)
(* Storefront checkout, createOrder: the POST of the order, 'pending' and  *)
(* for the storefront's partner, and then the POST of its line items.      *)
(***************************************************************************)
createOrder(o, p, cart) ==
  /\ orders[o].status = NoRow
  /\ orders' = [orders EXCEPT ![o] = [status |-> "pending", partner_id |-> p, items |-> <<>>]]
  /\ checkout' = [checkout EXCEPT ![o] = cart]
  /\ UNCHANGED <<store, pricing, products, partner_balances, partner_transactions, partner_withdrawals,
                 payment_settings, inflight, lastUpdate, orderCache, partnerUi, adminUi>>

createOrderItems(o) ==
  /\ checkout[o] # <<>>
  /\ orders' = [orders EXCEPT ![o].items = checkout[o]]
  /\ checkout' = [checkout EXCEPT ![o] = <<>>]
  /\ UNCHANGED <<store, pricing, products, partner_balances, partner_transactions, partner_withdrawals,
                 payment_settings, inflight, lastUpdate, orderCache, partnerUi, adminUi>>

(***************************************************************************)
(* useOrders: a session (re)loads the orders it shows.                     *)
(***************************************************************************)
OrderStatuses == [o \in OrderIds |-> orders[o].status]

useOrders(s) ==
  /\ orderCache[s] # OrderStatuses
  /\ orderCache' = [orderCache EXCEPT ![s] = OrderStatuses]
  /\ UNCHANGED <<store, pricing, dbVars, checkout, partnerUi, adminUi>>

(***************************************************************************)
(* credit_partner_sale_on_delivery, lines 34-47: the loop over the order's *)
(* items, each with the product's cost price as it is now.                 *)
(***************************************************************************)
\* The loop with the selling price a partner has set for the product now in
\* place of the line's unit price, where there is one.
SellingPriceNow(line) ==
  IF \E r \in partner_products : r.product_id = line.product_id
  THEN (CHOOSE r \in partner_products : r.product_id = line.product_id).selling_price
  ELSE line.unit_price

RECURSIVE PartnerProfitAtPriceNow(_, _)
PartnerProfitAtPriceNow(items, price) ==
  IF items = <<>> THEN 0
  ELSE ((SellingPriceNow(Head(items)) - price[Head(items).product_id]) * Head(items).quantity)
       + PartnerProfitAtPriceNow(Tail(items), price)

\* The loop without the cost price: the lines' revenue.
RECURSIVE PartnerRevenue(_, _)
PartnerRevenue(items, price) ==
  IF items = <<>> THEN 0
  ELSE (Head(items).unit_price * Head(items).quantity) + PartnerRevenue(Tail(items), price)

RECURSIVE PartnerProfit(_, _)
PartnerProfit(items, price) ==
  IF items = <<>> THEN 0
  ELSE ((Head(items).unit_price - price[Head(items).product_id]) * Head(items).quantity)
       + PartnerProfit(Tail(items), price)

\* The trigger without its test of OLD.status.
TriggerFiresOnAnyDelivered(old, new) == new = "delivered"

\* Line 26: the trigger acts only on a change into 'delivered'.
TriggerFires(old, new) == new = "delivered" /\ old # "delivered"

\* The rows of partner_balances WHERE partner_id = p.
\* The trigger without its test of the partner.
AnyPartner(p) == TRUE

\* Lines 27-32: an order without a partner is left alone.
HasPartner(p) == p # NULL

\* The trigger posting whatever is not zero.
AnyProfitIsPosted(profit) == profit # 0

\* Line 50: only a positive profit is posted.
ProfitIsPosted(profit) == profit > 0

\* The balance rows without the filter on the partner.
BalanceRowsOfAnyPartner(p) == partner_balances

BalanceRows(p) == {r \in partner_balances : r.partner_id = p}

\* The UPDATE writing the profit over the totals instead of adding it.
CreditBalanceOverwrite(row, profit) ==
  [row EXCEPT !.pending_balance = profit, !.total_earned = profit]

\* Lines 57-61: the UPDATE of an existing balance row.
CreditBalance(row, profit) ==
  [row EXCEPT !.pending_balance = @ + profit, !.total_earned = @ + profit]

\* Lines 53-54: the row inserted for a partner that has none.
\* The first row of a partner without the profit in total_earned.
FirstBalanceUnearned(p, profit) ==
  [partner_id |-> p, available_balance |-> 0, pending_balance |-> profit,
   total_earned |-> 0, total_withdrawn |-> 0]

FirstBalance(p, profit) ==
  [partner_id |-> p, available_balance |-> 0, pending_balance |-> profit,
   total_earned |-> profit, total_withdrawn |-> 0]

\* Lines 65-73: the 'sale' entry.
SaleTransaction(p, profit, row, o) ==
  [partner_id |-> p, type |-> "sale", amount |-> profit,
   balance_after |-> row.available_balance + row.pending_balance, reference_id |-> o]

\* Transactions written plus those the open handlers are about to write.
PlannedTransactions ==
  Len(partner_transactions)
  + Cardinality({o \in OrderIds : inflight[o].pc # "none"})
  + Cardinality({s \in AdminSessions : resolving[s].pc # "idle"})

(***************************************************************************)
(* handleStatusChange -> useUpdateOrderStatus: the session offers the      *)
(* statuses STATUS_FLOW gives for the status it shows, and the PATCH       *)
(* writes the chosen one whatever the stored status is.  The UPDATE takes  *)
(* the order's row lock, then the trigger runs up to its EXISTS test.      *)
(***************************************************************************)
useUpdateOrderStatus(s, o, status) ==
  /\ orderCache[s][o] # NoRow
  /\ status \in STATUS_FLOW(orderCache[s][o])
  /\ orders[o].status # NoRow
  /\ inflight[o].pc = "none"
  /\ lastUpdate' = [id |-> o, old |-> orders[o].status, new |-> status]
  /\ LET p == orders[o].partner_id
         profit == PartnerProfit(orders[o].items, products)
     IN IF TriggerFires(orders[o].status, status) /\ HasPartner(p) /\ ProfitIsPosted(profit)
        THEN /\ PlannedTransactions < MaxTransactions
             /\ inflight' = [inflight EXCEPT ![o] =
                   [pc |-> IF BalanceRows(p) = {} THEN "insert" ELSE "update",
                    profit |-> profit, session |-> s]]
             /\ UNCHANGED <<orders, orderCache>>
        ELSE /\ orders' = [orders EXCEPT ![o].status = status]
             /\ orderCache' = [orderCache EXCEPT ![s] =
                   [x \in OrderIds |-> orders'[x].status]]
             /\ UNCHANGED inflight
  /\ UNCHANGED <<store, pricing, products, partner_balances, partner_transactions, partner_withdrawals,
                 payment_settings, checkout, partnerUi, adminUi>>

(***************************************************************************)
(* The rest of the trigger and the commit.  An INSERT that meets a row     *)
(* another delivery committed meanwhile breaks the one-row-per-partner key *)
(* and aborts the whole UPDATE: the status stays as it was.                *)
(***************************************************************************)
SettleAbort(o) ==
  /\ inflight[o].pc = "insert"
  /\ BalanceRows(orders[o].partner_id) # {}
  /\ inflight' = [inflight EXCEPT ![o] = NoTx]
  /\ UNCHANGED <<store, pricing, products, orders, partner_balances, partner_transactions,
                 partner_withdrawals, payment_settings, lastUpdate, checkout,
                 orderCache, partnerUi, adminUi>>

SettleCommit(o) ==
  /\ inflight[o].pc \in {"insert", "update"}
  /\ LET p == orders[o].partner_id
         profit == inflight[o].profit
         row == IF inflight[o].pc = "insert" THEN FirstBalance(p, profit)
                ELSE CreditBalance(CHOOSE r \in BalanceRows(p) : TRUE, profit)
     IN /\ inflight[o].pc = "insert" => BalanceRows(p) = {}
        /\ partner_balances' = (partner_balances \ BalanceRows(p)) \cup {row}
        /\ partner_transactions' =
             Append(partner_transactions, SaleTransaction(p, profit, row, o))
        /\ orders' = [orders EXCEPT ![o].status = "delivered"]
        /\ orderCache' = [orderCache EXCEPT ![inflight[o].session] =
              [x \in OrderIds |-> orders'[x].status]]
        /\ inflight' = [inflight EXCEPT ![o] = NoTx]
  /\ UNCHANGED <<store, pricing, products, partner_withdrawals, payment_settings, lastUpdate,
                 checkout, partnerUi, adminUi>>

(***************************************************************************)
(* Maturity: profit held in pending_balance becomes available once the     *)
(* holding period is over.  The sweep moves the pooled pending balance.    *)
(***************************************************************************)
MatureRow(row) ==
  [row EXCEPT !.available_balance = @ + row.pending_balance, !.pending_balance = 0]

maturePending(p) ==
  /\ \E r \in BalanceRows(p) : r.pending_balance > 0
  /\ partner_balances' =
       {IF r.partner_id = p THEN MatureRow(r) ELSE r : r \in partner_balances}
  /\ UNCHANGED <<store, pricing, products, orders, partner_transactions, partner_withdrawals,
                 payment_settings, inflight, lastUpdate, checkout, orderCache, partnerUi, adminUi>>

(***************************************************************************)
(* Partner Financeiro page.                                                *)
(***************************************************************************)
\* usePartnerBalance and line 866: Number(balance?.available_balance || 0).
AvailableShown(p) ==
  IF BalanceRows(p) = {} THEN 0
  ELSE (CHOOSE r \in BalanceRows(p) : TRUE).available_balance

usePartnerBalance(s) ==
  /\ balanceCache[s] # AvailableShown(SessionPartner(s))
  /\ balanceCache' = [balanceCache EXCEPT ![s] = AvailableShown(SessionPartner(s))]
  /\ UNCHANGED <<store, pricing, dbVars, checkout, orderCache, request, adminUi>>

\* Line 865: settings?.min_withdrawal_amount || 50.
FallbackMinAmount == 50

minAmount(s) ==
  IF settingsCache[s] = {} THEN FallbackMinAmount
  ELSE LET m == (CHOOSE r \in settingsCache[s] : TRUE).min_withdrawal_amount
       IN IF m = 0 THEN FallbackMinAmount ELSE m

\* Line 869, with a PIX key typed in.
canWithdraw(s, amount) == amount >= minAmount(s) /\ amount <= balanceCache[s]

\* Lines 769-783: the POST of the withdrawal row.
NewWithdrawal(p, amount) ==
  [id |-> WithdrawalKeys[Len(partner_withdrawals) + 1], partner_id |-> p,
   amount |-> amount, status |-> "pending", processed_at |-> FALSE]

\* handleSubmit up to the first await of useRequestWithdrawal's mutationFn.
handleSubmit(s, amount) ==
  /\ request[s].pc = "idle"
  /\ canWithdraw(s, amount)
  /\ Len(partner_withdrawals) < Len(WithdrawalKeys)
  /\ partner_withdrawals' =
       Append(partner_withdrawals, NewWithdrawal(SessionPartner(s), amount))
  /\ request' = [request EXCEPT ![s] = [pc |-> "block", amount |-> amount]]
  /\ UNCHANGED <<store, pricing, products, orders, partner_balances, partner_transactions,
                 payment_settings, inflight, lastUpdate, checkout, orderCache, balanceCache, adminUi>>

\* rpc/block_withdrawal_amount: debit of the available bucket, refused when
\* it would drive the bucket below zero.
block_withdrawal_amount(p, amount) ==
  {IF r.partner_id = p /\ r.available_balance >= amount
     THEN [r EXCEPT !.available_balance = @ - amount] ELSE r : r \in partner_balances}

\* Lines 790-801: the RPC, whose response is not looked at, then onSuccess
\* reloads the balance the tab shows.
blockWithdrawal(s) ==
  /\ request[s].pc = "block"
  /\ partner_balances' = block_withdrawal_amount(SessionPartner(s), request[s].amount)
  /\ request' = [request EXCEPT ![s] = NoRequest]
  /\ balanceCache' = [balanceCache EXCEPT ![s] =
       IF \E r \in partner_balances' : r.partner_id = SessionPartner(s)
       THEN (CHOOSE r \in partner_balances' : r.partner_id = SessionPartner(s)).available_balance
       ELSE 0]
  /\ UNCHANGED <<store, pricing, products, orders, partner_transactions, partner_withdrawals,
                 payment_settings, inflight, lastUpdate, checkout, orderCache, adminUi>>

(***************************************************************************)
(* Admin payments page.                                                    *)
(***************************************************************************)
WithdrawalStatuses ==
  [w \in WithdrawalIds |->
     IF \E i \in 1..Len(partner_withdrawals) : partner_withdrawals[i].id = w
     THEN (CHOOSE r \in {partner_withdrawals[i] : i \in 1..Len(partner_withdrawals)} :
             r.id = w).status
     ELSE NoRow]

useWithdrawals(s) ==
  /\ withdrawalCache[s] # WithdrawalStatuses
  /\ withdrawalCache' = [withdrawalCache EXCEPT ![s] = WithdrawalStatuses]
  /\ UNCHANGED <<store, pricing, dbVars, checkout, orderCache, partnerUi, selectedWithdrawal, resolving>>

\* Line 1263: the modal keeps the row as the list showed it when clicked.
setSelectedWithdrawal(s, w) ==
  /\ resolving[s].pc = "idle"
  /\ withdrawalCache[s][w] # NoRow
  /\ selectedWithdrawal[s] # [id |-> w, status |-> withdrawalCache[s][w]]
  /\ selectedWithdrawal' = [selectedWithdrawal EXCEPT ![s] =
       [id |-> w, status |-> withdrawalCache[s][w]]]
  /\ UNCHANGED <<store, pricing, dbVars, checkout, orderCache, partnerUi, withdrawalCache, resolving>>

\* Lines 801-814: the PATCH of the withdrawal row, by id alone.
PatchWithdrawal(rows, w, status) ==
  [i \in 1..Len(rows) |->
     IF rows[i].id = w THEN [rows[i] EXCEPT !.status = status, !.processed_at = TRUE]
     ELSE rows[i]]

\* Lines 967-997 and handleAction: the buttons show while the modal's copy is
\* 'pending'.  'rejected' ends here: onSuccess reloads the list and the modal
\* closes.  'paid' goes on to the balance.
handleAction(s, status) ==
  /\ resolving[s].pc = "idle"
  /\ selectedWithdrawal[s].status = "pending"
  /\ status \in {"paid", "rejected"}
  /\ partner_withdrawals' =
       PatchWithdrawal(partner_withdrawals, selectedWithdrawal[s].id, status)
  /\ IF status = "paid"
     THEN /\ PlannedTransactions < MaxTransactions
          /\ resolving' = [resolving EXCEPT ![s] =
               [pc |-> "balance", id |-> selectedWithdrawal[s].id,
                old |-> WithdrawalStatuses[selectedWithdrawal[s].id]]]
          /\ UNCHANGED <<withdrawalCache, selectedWithdrawal>>
     ELSE /\ withdrawalCache' = [withdrawalCache EXCEPT ![s] =
               [w \in WithdrawalIds |->
                  IF w = selectedWithdrawal[s].id THEN status ELSE WithdrawalStatuses[w]]]
          /\ selectedWithdrawal' = [selectedWithdrawal EXCEPT ![s] = NoSelection]
          /\ UNCHANGED resolving
  /\ UNCHANGED <<store, pricing, products, orders, partner_balances, partner_transactions,
                 payment_settings, inflight, lastUpdate, checkout, orderCache, partnerUi>>

Withdrawal(w) ==
  CHOOSE r \in {partner_withdrawals[i] : i \in 1..Len(partner_withdrawals)} : r.id = w

\* Lines 830-833: what the PATCH of the balance row asks for.
PaidBalance(row, amount) ==
  [row EXCEPT !.available_balance = @ - amount, !.total_withdrawn = @ + amount]

\* Lines 823-834.  The body carries the two expressions as strings and the
\* response is not looked at: the store either applies them or refuses the
\* request, and the handler goes on alike.
patchBalance(s, applied) ==
  /\ resolving[s].pc = "balance"
  /\ LET w == Withdrawal(resolving[s].id)
     IN partner_balances' =
          IF applied
          THEN {IF r.partner_id = w.partner_id THEN PaidBalance(r, w.amount) ELSE r :
                  r \in partner_balances}
          ELSE partner_balances
  /\ resolving' = [resolving EXCEPT ![s].pc = "transaction"]
  /\ UNCHANGED <<store, pricing, products, orders, partner_transactions, partner_withdrawals,
                 payment_settings, inflight, lastUpdate, checkout, orderCache, partnerUi,
                 withdrawalCache, selectedWithdrawal>>

\* Lines 844-851: the 'withdrawal' entry.
WithdrawalTransaction(w) ==
  [partner_id |-> w.partner_id, type |-> "withdrawal", amount |-> 0 - w.amount,
   balance_after |-> 0, reference_id |-> w.id]

\* Lines 837-855.  The closing response.json() reads a body line 820 has
\* read already, so the mutation rejects: onSuccess does not run, the list
\* is not reloaded and the modal stays open on its copy of the row.
postTransaction(s) ==
  /\ resolving[s].pc = "transaction"
  /\ partner_transactions' =
       Append(partner_transactions, WithdrawalTransaction(Withdrawal(resolving[s].id)))
  /\ resolving' = [resolving EXCEPT ![s] = NotResolving]
  /\ UNCHANGED <<store, pricing, products, orders, partner_balances, partner_withdrawals,
                 payment_settings, inflight, lastUpdate, checkout, orderCache, partnerUi,
                 withdrawalCache, selectedWithdrawal>>

(***************************************************************************)
(* Catalogue: the admin's cost price of a product and the partners'        *)
(* selling prices.                                                         *)
(***************************************************************************)
\* useUpdateProduct: the admin's products page writes a new cost price.
useUpdateProduct(x, cost) ==
  /\ products[x] # cost
  /\ products' = [products EXCEPT ![x] = cost]
  /\ UNCHANGED <<orders, partner_balances, partner_transactions, partner_withdrawals,
                 payment_settings, inflight, lastUpdate, checkout, orderCache,
                 partnerUi, adminUi, pricing, store>>

\* useAllProducts: the partner's tab loads the products and keeps them.
AllProducts == {[id |-> x, price |-> products[x]] : x \in Products}

useAllProducts(s) ==
  /\ productCache[s] # AllProducts
  /\ productCache' = [productCache EXCEPT ![s] = AllProducts]
  /\ UNCHANGED <<store, dbVars, checkout, orderCache, partnerUi, adminUi,
                 partner_products, settingsCache>>

PartnerProductRows(p, x) ==
  {r \in partner_products : r.partner_id = p /\ r.product_id = x}

\* The POST with resolution=merge-duplicates: the partner's row for the
\* product is created or replaced.
UpsertPartnerProduct(p, x, price) ==
  (partner_products \ PartnerProductRows(p, x))
    \cup {[partner_id |-> p, product_id |-> x, selling_price |-> price]}

\* SetPriceModal.handleSave: the price typed in is compared with the cost
\* price of the product the tab holds, then useUpsertPartnerProduct writes it.
SetPriceModal_handleSave(s, x, price) ==
  /\ \E product \in productCache[s] :
       /\ product.id = x
       /\ ~(price <= product.price)
  /\ partner_products' = UpsertPartnerProduct(SessionPartner(s), x, price)
  /\ partner_products' # partner_products
  /\ UNCHANGED <<store, dbVars, checkout, orderCache, partnerUi, adminUi,
                 productCache, settingsCache>>

\* useCreatePartnerProduct: the insert of the row it is given.
useCreatePartnerProduct(p, x, price) ==
  /\ PartnerProductRows(p, x) = {}
  /\ partner_products' =
       partner_products \cup {[partner_id |-> p, product_id |-> x, selling_price |-> price]}
  /\ UNCHANGED <<store, dbVars, checkout, orderCache, partnerUi, adminUi,
                 productCache, settingsCache>>

\* useUpdatePartnerProduct: the update of the row with the fields it is given.
useUpdatePartnerProduct(p, x, price) ==
  /\ PartnerProductRows(p, x) # {}
  /\ partner_products' = UpsertPartnerProduct(p, x, price)
  /\ partner_products' # partner_products
  /\ UNCHANGED <<store, dbVars, checkout, orderCache, partnerUi, adminUi,
                 productCache, settingsCache>>

\* handleRemoveFromMenu -> useDeletePartnerProduct: the partner's row for the
\* product is deleted.
useDeletePartnerProduct(p, x) ==
  /\ PartnerProductRows(p, x) # {}
  /\ partner_products' = partner_products \ PartnerProductRows(p, x)
  /\ UNCHANGED <<store, dbVars, checkout, orderCache, partnerUi, adminUi,
                 productCache, settingsCache>>

\* useCreateOrder: the insert of the order it is given, with or without a
\* partner and in the status given; its items follow in a second request.
\* The trigger is AFTER UPDATE and does not run for the insert.
useCreateOrder(o, p, status, cart) ==
  /\ orders[o].status = NoRow
  /\ orders' = [orders EXCEPT ![o] = [status |-> status, partner_id |-> p, items |-> <<>>]]
  /\ checkout' = [checkout EXCEPT ![o] = cart]
  /\ UNCHANGED <<products, partner_balances, partner_transactions, partner_withdrawals,
                 payment_settings, inflight, lastUpdate, orderCache, partnerUi, adminUi,
                 pricing, store>>

\* useDeleteOrder: the DELETE of the order row by id.  Whether order_items
\* go with it or hold it back is the schema's choice, which src/ does not
\* show; an order without items is deleted either way, and the items a
\* checkout has still to send then find no order.
useDeleteOrder(o, cascades) ==
  /\ orders[o].status # NoRow
  /\ inflight[o].pc = "none"
  /\ orders[o].items = <<>> \/ cascades
  /\ orders' = [orders EXCEPT ![o] = NoOrder]
  /\ checkout' = [checkout EXCEPT ![o] = <<>>]
  /\ UNCHANGED <<products, partner_balances, partner_transactions, partner_withdrawals,
                 payment_settings, inflight, lastUpdate, orderCache, partnerUi, adminUi,
                 pricing, store>>

(***************************************************************************)
(* Payment settings.                                                       *)
(***************************************************************************)
\* usePaymentSettings: data[0] of payment_settings?limit=1, kept by the tab.
usePaymentSettings(s) ==
  /\ settingsCache[s] # payment_settings
  /\ settingsCache' = [settingsCache EXCEPT ![s] = payment_settings]
  /\ UNCHANGED <<store, dbVars, checkout, orderCache, partnerUi, adminUi,
                 partner_products, productCache>>

\* SettingsModal.handleSave -> useUpdatePaymentSettings: the PATCH of every
\* payment_settings row.
SettingsModal_handleSave(min) ==
  /\ payment_settings' = {[r EXCEPT !.min_withdrawal_amount = min] : r \in payment_settings}
  /\ payment_settings' # payment_settings
  /\ UNCHANGED <<products, orders, partner_balances, partner_transactions,
                 partner_withdrawals, inflight, lastUpdate, checkout, orderCache,
                 partnerUi, adminUi, pricing, store>>

(***************************************************************************)
(* The store's opening.  A time "HH:MM" is the pair <<HH, MM>>, and the    *)
(* minutes since midnight are what split(':').map(Number) and              *)
(* h * 60 + m make of it.  Every day has the same hours.                   *)
(***************************************************************************)
Minutes(t) == t[1] * 60 + t[2]

\* The storefront's isOpen of the settings it holds (none, or one record),
\* at the time t.
isOpen(loaded, t) ==
  IF \A s \in loaded : ~s.store_info
  THEN FALSE
  ELSE LET s == CHOOSE r \in loaded : TRUE
       IN  IF s.business_hours = {}
           THEN TRUE
           ELSE LET hours == CHOOSE h \in s.business_hours : TRUE
                    currentTime == Minutes(t)
                    openTime == Minutes(hours.open)
                    closeTime == IF Minutes(hours.close) < openTime
                                 THEN Minutes(hours.close) + 24 * 60
                                 ELSE Minutes(hours.close)
                IN  IF ~hours.enabled
                    THEN FALSE
                    ELSE currentTime >= openTime /\ currentTime < closeTime

\* useIsStoreOpen of what its two queries hold (none, or one value each),
\* at the time t.
useIsStoreOpen(storeInfo, businessHours, t) ==
  IF businessHours = {} \/ storeInfo = {}
  THEN [isOpen |-> FALSE, isLoading |-> TRUE]
  ELSE LET hours == CHOOSE h \in businessHours : TRUE
           currentTime == Minutes(t)
           openTime == Minutes(hours.open)
           closesAfterMidnight == Minutes(hours.close) < openTime
           closeTime == IF closesAfterMidnight
                        THEN Minutes(hours.close) + 24 * 60
                        ELSE Minutes(hours.close)
           adjustedCurrent == currentTime + 24 * 60
       IN  IF \A v \in storeInfo : ~v
           THEN [isOpen |-> FALSE, isLoading |-> FALSE]
           ELSE IF ~hours.enabled
           THEN [isOpen |-> FALSE, isLoading |-> FALSE]
           ELSE IF /\ closesAfterMidnight
                   /\ currentTime < openTime
                   /\ adjustedCurrent >= openTime
                   /\ adjustedCurrent < closeTime
           THEN [isOpen |-> TRUE, isLoading |-> FALSE]
           ELSE IF currentTime >= openTime /\ currentTime < closeTime
           THEN [isOpen |-> TRUE, isLoading |-> FALSE]
           ELSE [isOpen |-> FALSE, isLoading |-> FALSE]

\* The settings table as one GET of all its rows gives it.
StoreSettings == {[store_info |-> store_info, business_hours |-> business_hours]}

\* useStoreSettings: the storefront (re)loads the settings; isOpen is
\* memoised on them and is computed again when they have changed.
useStoreSettings ==
  /\ storeSettings # StoreSettings
  /\ storeSettings' = StoreSettings
  /\ menuIsOpen' = isOpen(StoreSettings, now)
  /\ UNCHANGED <<settings, menuCart, isSubmitting, storeStatus, dbVars, checkout, orderCache,
                 partnerUi, adminUi, pricing>>

\* useStoreInfo: the query of the 'store_info' row arrives and the hook
\* is evaluated with it.
useStoreInfo ==
  /\ storeInfoCache # {store_info}
  /\ storeInfoCache' = {store_info}
  /\ storeOpen' = useIsStoreOpen({store_info}, businessHoursCache, now)
  /\ UNCHANGED <<settings, menu, businessHoursCache, dbVars, checkout, orderCache,
                 partnerUi, adminUi, pricing>>

\* useBusinessHours: the query of the 'business_hours' row arrives, when
\* the row is there (.single() fails without it), and the hook is evaluated.
useBusinessHours ==
  /\ business_hours # {}
  /\ businessHoursCache # business_hours
  /\ businessHoursCache' = business_hours
  /\ storeOpen' = useIsStoreOpen(storeInfoCache, business_hours, now)
  /\ UNCHANGED <<settings, menu, storeInfoCache, dbVars, checkout, orderCache,
                 partnerUi, adminUi, pricing>>

\* SettingsPage.handleToggleOpen: the admin's page writes the opposite of the
\* is_open it holds.
handleToggleOpen(held) ==
  /\ store_info' = ~held
  /\ store_info' # store_info
  /\ UNCHANGED <<business_hours, now, menu, storeStatus, dbVars, checkout, orderCache,
                 partnerUi, adminUi, pricing>>

\* Time passes.
tick(t) ==
  /\ t # now
  /\ now' = t
  /\ UNCHANGED <<store_info, business_hours, menu, storeStatus, dbVars, checkout,
                 orderCache, partnerUi, adminUi, pricing>>

(***************************************************************************)
(* The storefront's cart and checkout.                                     *)
(***************************************************************************)
\* handleAddToCart: refused while the memoised isOpen is false; otherwise
\* one more unit of the product, at the selling price the menu shows.
handleAddToCart(x, price) ==
  /\ menuIsOpen
  /\ isSubmitting = NULL
  /\ IF \E i \in 1..Len(menuCart) : menuCart[i].product_id = x
     THEN /\ \A i \in 1..Len(menuCart) : menuCart[i].quantity < MaxQuantity
          /\ menuCart' = [i \in 1..Len(menuCart) |->
                            IF menuCart[i].product_id = x
                            THEN [menuCart[i] EXCEPT !.quantity = @ + 1]
                            ELSE menuCart[i]]
     ELSE menuCart' = Append(menuCart, Item(x, price, 1))
  /\ UNCHANGED <<settings, storeSettings, menuIsOpen, isSubmitting, storeStatus, dbVars,
                 checkout, orderCache, partnerUi, adminUi, pricing>>

\* handleSubmitOrder, up to the POST of the order: the order is created
\* 'pending' for the storefront's partner with the cart as it is.
handleSubmitOrder(o) ==
  /\ menuCart # <<>>
  /\ isSubmitting = NULL
  /\ orders[o].status = NoRow
  /\ isSubmitting' = o
  /\ orders' = [orders EXCEPT ![o] =
                  [status |-> "pending", partner_id |-> StorefrontPartner, items |-> <<>>]]
  /\ checkout' = [checkout EXCEPT ![o] = menuCart]
  /\ UNCHANGED <<settings, storeSettings, menuIsOpen, menuCart, storeStatus, products,
                 partner_balances, partner_transactions, partner_withdrawals,
                 payment_settings, inflight, lastUpdate, orderCache, partnerUi, adminUi,
                 pricing>>

\* handleSubmitOrder, after createOrder has returned: the cart is emptied.
setOrderSuccess(o) ==
  /\ isSubmitting = o
  /\ checkout[o] = <<>>
  /\ menuCart' = <<>>
  /\ isSubmitting' = NULL
  /\ UNCHANGED <<settings, storeSettings, menuIsOpen, storeStatus, dbVars, checkout,
                 orderCache, partnerUi, adminUi, pricing>>

(***************************************************************************)
(* Next-state relations.  OrderSteps(S, O, P) are the steps of the orders  *)
(* pages of the sessions S on the orders O, placed at the storefronts of   *)
(* the partners P.                                                         *)
(***************************************************************************)
OrderSteps(S, O, P) ==
  \/ \E o \in O, p \in P, cart \in Carts : createOrder(o, p, cart)
  \/ \E o \in O : createOrderItems(o)
  \/ \E s \in S : useOrders(s)
  \/ \E s \in S, o \in O, status \in OrderStatus : useUpdateOrderStatus(s, o, status)
  \/ \E o \in O : SettleCommit(o)

RequestSteps(S) ==
  \/ \E p \in Partners : maturePending(p)
  \/ \E s \in S : usePartnerBalance(s)
  \/ \E s \in S, amount \in Amounts : handleSubmit(s, amount)
  \/ \E s \in S : blockWithdrawal(s)

ResolveSteps(S) ==
  \/ \E s \in S : useWithdrawals(s)
  \/ \E s \in S, w \in WithdrawalIds : setSelectedWithdrawal(s, w)
  \/ \E s \in S, status \in {"paid", "rejected"} : handleAction(s, status)
  \/ \E s \in S, applied \in BOOLEAN : patchBalance(s, applied)
  \/ \E s \in S : postTransaction(s)

LedgerSteps == RequestSteps(PartnerSessions) \/ ResolveSteps({"adm"})

CatalogueSteps(S, O, P) ==
  \/ \E x \in Products, cost \in CostPrices : useUpdateProduct(x, cost)
  \/ \E s \in S : useAllProducts(s)
  \/ \E s \in S, x \in Products, price \in SellingPrices :
       SetPriceModal_handleSave(s, x, price)
  \/ \E p \in P, x \in Products, price \in SellingPrices :
       useCreatePartnerProduct(p, x, price)
  \/ \E p \in P, x \in Products, price \in SellingPrices :
       useUpdatePartnerProduct(p, x, price)
  \/ \E p \in P, x \in Products : useDeletePartnerProduct(p, x)
  \/ \E o \in O, p \in P \cup {NULL}, status \in {"pending", "delivered"}, cart \in Carts :
       useCreateOrder(o, p, status, cart)

SettingsSteps(S) ==
  \/ \E s \in S : usePaymentSettings(s)
  \/ \E min \in MinAmounts : SettingsModal_handleSave(min)

Next ==
  \/ OrderSteps(OrderSessions, OrderIds, Partners)
  \/ CatalogueSteps(PartnerSessions, OrderIds, Partners)
  \/ SettingsSteps(PartnerSessions)
  \/ \E o \in OrderIds : SettleAbort(o)
  \/ \E o \in OrderIds, cascades \in BOOLEAN : useDeleteOrder(o, cascades)
  \/ RequestSteps(PartnerSessions)
  \/ ResolveSteps(AdminSessions)

Spec == Init /\ [][Next]_vars

\* One order under two orders pages, either of which may show a stale status.
RedeliveryNext == OrderSteps(OrderSessions, {"o1"}, Partners)

SpecRedelivery == Init /\ [][RedeliveryNext]_vars

\* Two orders delivered from one orders page, their UPDATEs open together.
ConcurrentNext ==
  \/ OrderSteps({"admin"}, OrderIds, Partners)
  \/ \E o \in OrderIds : SettleAbort(o)

SpecConcurrent == Init /\ [][ConcurrentNext]_vars

\* The ledger side: the admin's orders page brings one order to delivery,
\* and the partner and the admin act on what it earned.
LedgerNext == OrderSteps({"admin"}, {"o1"}, Partners) \/ LedgerSteps

SpecLedger == Init /\ [][LedgerNext]_vars

\* One order, with or without a partner, while cost and selling prices change.
PricingNext ==
  \/ OrderSteps({"admin"}, {"o1"}, {"p1"})
  \/ CatalogueSteps({"tab1"}, {"o1"}, {"p1"})

SpecPricing == Init /\ [][PricingNext]_vars

\* One partner tab requesting withdrawals while the admin changes the minimum.
SettingsNext ==
  \/ OrderSteps({"admin"}, {"o1"}, {"p1"})
  \/ \E p \in {"p1"} : maturePending(p)
  \/ \E s \in {"tab1"} : usePartnerBalance(s)
  \/ \E s \in {"tab1"}, amount \in Amounts : handleSubmit(s, amount)
  \/ \E s \in {"tab1"} : blockWithdrawal(s)
  \/ SettingsSteps({"tab1"})

SpecSettings == Init /\ [][SettingsNext]_vars

\* One partner tab's requests resolved by two admin sessions.
ResolveNext ==
  \/ OrderSteps({"admin"}, {"o1"}, {"p1"})
  \/ RequestSteps({"tab1"})
  \/ ResolveSteps(AdminSessions)

SpecResolve == Init /\ [][ResolveNext]_vars

\* One order that may be deleted at any time.
DeleteNext ==
  \/ OrderSteps({"admin"}, {"o1"}, {"p1"})
  \/ \E o \in {"o1"}, cascades \in BOOLEAN : useDeleteOrder(o, cascades)

SpecDelete == Init /\ [][DeleteNext]_vars

\* Orders of two partners, and the withdrawals of one of them.
IsolationNext ==
  \/ OrderSteps({"admin"}, OrderIds, Partners)
  \/ \E o \in OrderIds : SettleAbort(o)
  \/ RequestSteps({"tab1"})
  \/ ResolveSteps({"adm"})

SpecIsolation == Init /\ [][IsolationNext]_vars

\* The two store-open decisions, each applied to the settings as they are.
StoreOpenNext ==
  \/ useStoreSettings
  \/ useStoreInfo
  \/ useBusinessHours

SpecStoreOpen == InitStoreOpen /\ [][StoreOpenNext]_vars

\* A customer at the storefront while the admin opens and closes the store
\* and time passes.
StorefrontNext ==
  \/ \E held \in BOOLEAN : handleToggleOpen(held)
  \/ \E t \in Clock : tick(t)
  \/ useStoreSettings
  \/ \E x \in Products, price \in SellingPrices : handleAddToCart(x, price)
  \/ \E o \in OrderIds : handleSubmitOrder(o)
  \/ \E o \in OrderIds : createOrderItems(o)
  \/ \E o \in OrderIds : setOrderSuccess(o)

SpecStorefront == Init /\ [][StorefrontNext]_vars

(***************************************************************************)
(* Ledger sums the properties below are stated with.                       *)
(***************************************************************************)
RECURSIVE SaleSumOf(_, _)
SaleSumOf(rows, p) ==
  IF rows = <<>> THEN 0
  ELSE (IF Head(rows).type = "sale" /\ Head(rows).partner_id = p
        THEN Head(rows).amount ELSE 0) + SaleSumOf(Tail(rows), p)

RECURSIVE PendingSumOf(_, _)
PendingSumOf(rows, p) ==
  IF rows = <<>> THEN 0
  ELSE (IF Head(rows).status = "pending" /\ Head(rows).partner_id = p
        THEN Head(rows).amount ELSE 0) + PendingSumOf(Tail(rows), p)

\* Sum of the partner's 'sale' entries.
SaleSum(p) == SaleSumOf(partner_transactions, p)

\* Sum of the partner's withdrawals that are still pending.
PendingSum(p) == PendingSumOf(partner_withdrawals, p)

SalesOf(o) ==
  {i \in 1..Len(partner_transactions) :
     partner_transactions[i].type = "sale" /\ partner_transactions[i].reference_id = o}

Available(p) == AvailableShown(p)

(***************************************************************************)
(* C1: in every reachable state every balance row satisfies                *)
(* available_balance + pending_balance = total_earned - total_withdrawn.   *)
(***************************************************************************)
C1_BalanceEquation ==
  \A r \in partner_balances :
    r.available_balance + r.pending_balance = r.total_earned - r.total_withdrawn

(***************************************************************************)
(* C2: a status update to 'delivered' on an order whose stored status is   *)
(* already 'delivered' posts nothing: no balance row and no transaction    *)
(* changes, and no settlement is started.                                  *)
(***************************************************************************)
C2_RedeliveryPostsNothing ==
  [][(/\ lastUpdate' # lastUpdate
      /\ lastUpdate'.old = "delivered"
      /\ lastUpdate'.new = "delivered")
     => (/\ partner_balances' = partner_balances
         /\ partner_transactions' = partner_transactions
         /\ inflight' = inflight)]_vars

\* The order was delivered and paid once, and a second 'delivered' update ran.
C2_Witness ==
  /\ lastUpdate = [id |-> "o1", old |-> "delivered", new |-> "delivered"]
  /\ orders["o1"].status = "delivered"
  /\ Cardinality(SalesOf("o1")) = 1
  /\ Len(partner_transactions) = 1

(***************************************************************************)
(* C3: the same available funds never back two withdrawal requests: while  *)
(* all of a partner's withdrawals are pending, their amounts sum to no     *)
(* more than the funds that were available before them, which is what has  *)
(* matured (total_earned - pending_balance).                               *)
(***************************************************************************)
C3_NoDoubleBacking ==
  \A p \in Partners :
    (\A i \in 1..Len(partner_withdrawals) :
        partner_withdrawals[i].partner_id = p => partner_withdrawals[i].status = "pending")
    => /\ BalanceRows(p) = {} => PendingSum(p) = 0
       /\ \A r \in BalanceRows(p) : PendingSum(p) <= r.total_earned - r.pending_balance

(***************************************************************************)
(* C4: a withdrawal request for more than the partner's current            *)
(* available_balance creates no withdrawal row.                            *)
(***************************************************************************)
C4_InsufficientFundsRefused ==
  [][\A i \in 1..Len(partner_withdrawals') :
       i > Len(partner_withdrawals)
       => partner_withdrawals'[i].amount <= Available(partner_withdrawals'[i].partner_id)]_vars

(***************************************************************************)
(* C5: resolving a pending withdrawal of amount A as paid sets             *)
(* processed_at, raises the partner's total_withdrawn by exactly A and     *)
(* appends exactly one 'withdrawal' entry of amount -A that refers to it.  *)
(***************************************************************************)
C5_PaidPostsDebit ==
  [][\A s \in AdminSessions :
       /\ (resolving[s].pc = "idle" /\ resolving'[s].pc = "balance")
          => \A i \in 1..Len(partner_withdrawals') :
               partner_withdrawals'[i].id = resolving'[s].id
               => /\ partner_withdrawals'[i].status = "paid"
                  /\ partner_withdrawals'[i].processed_at
       /\ (resolving[s].pc = "balance" /\ resolving[s].old = "pending"
           /\ resolving'[s].pc = "transaction")
          => LET w == Withdrawal(resolving[s].id)
             IN \A r \in BalanceRows(w.partner_id) :
                  \E r2 \in partner_balances' :
                    /\ r2.partner_id = r.partner_id
                    /\ r2.total_withdrawn = r.total_withdrawn + w.amount
       /\ (resolving[s].pc = "transaction" /\ resolving[s].old = "pending"
           /\ resolving'[s].pc = "idle")
          => LET w == Withdrawal(resolving[s].id)
             IN partner_transactions' =
                  Append(partner_transactions,
                         [partner_id |-> w.partner_id, type |-> "withdrawal",
                          amount |-> 0 - w.amount, balance_after |-> 0,
                          reference_id |-> w.id])]_vars

C7_RejectRestores ==
  [][\A i \in 1..Len(partner_withdrawals) :
       (partner_withdrawals[i].status = "pending"
        /\ partner_withdrawals'[i].status = "rejected")
       => \A r \in BalanceRows(partner_withdrawals[i].partner_id) :
            \E r2 \in partner_balances' :
              /\ r2.partner_id = r.partner_id
              /\ r2.available_balance = r.available_balance + partner_withdrawals[i].amount
              /\ r2.total_withdrawn = r.total_withdrawn]_vars

(***************************************************************************)
(* C8: a resolution of a withdrawal whose stored status is not 'pending'   *)
(* fails: the withdrawal row does not change and no balance update or      *)
(* transaction is started for it.                                          *)
(***************************************************************************)
C8_InvalidTransition ==
  [][\A i \in 1..Len(partner_withdrawals) :
       partner_withdrawals[i].status # "pending"
       => /\ partner_withdrawals'[i] = partner_withdrawals[i]
          /\ \A s \in AdminSessions :
               (resolving[s].pc = "idle" /\ resolving'[s].pc = "balance")
               => resolving'[s].id # partner_withdrawals[i].id]_vars

(***************************************************************************)
(* C9: every change of a withdrawal's status is pending -> approved,       *)
(* pending -> rejected, pending -> cancelled or approved -> paid; paid,    *)
(* rejected and cancelled are never left.                                  *)
(***************************************************************************)
WithdrawalTransitions ==
  {<<"pending", "approved">>, <<"pending", "rejected">>,
   <<"pending", "cancelled">>, <<"approved", "paid">>}

C9_WithdrawalStateMachine ==
  [][\A i \in 1..Len(partner_withdrawals) :
       partner_withdrawals'[i].status # partner_withdrawals[i].status
       => <<partner_withdrawals[i].status, partner_withdrawals'[i].status>>
            \in WithdrawalTransitions]_vars

(***************************************************************************)
(* C10: deliveries of one partner's orders lose no update, whatever the    *)
(* order of their steps and whether or not the partner has a balance row.  *)
(* At every moment the partner has at most one row and its pending_balance *)
(* and total_earned are the sum of the profits posted; and every step that *)
(* makes an order delivered with a positive profit leaves one row whose    *)
(* pending_balance and total_earned are what the partner held just before  *)
(* plus that profit, and appends the sale of that order.                   *)
(***************************************************************************)
C10_NoLostUpdate ==
  /\ [](\A p \in Partners :
          /\ Cardinality(BalanceRows(p)) <= 1
          /\ BalanceRows(p) = {} => SaleSum(p) = 0
          /\ \A r \in BalanceRows(p) :
               r.pending_balance = SaleSum(p) /\ r.total_earned = SaleSum(p)
          /\ \A o \in OrderIds : Cardinality(SalesOf(o)) <= 1)
  /\ [][\A o \in OrderIds :
          LET p == orders[o].partner_id
              profit == IF inflight[o].pc = "none"
                        THEN PartnerProfit(orders[o].items, products)
                        ELSE inflight[o].profit
              before == IF BalanceRows(p) = {} THEN 0
                        ELSE (CHOOSE r \in BalanceRows(p) : TRUE).total_earned
          IN (/\ orders[o].status # "delivered"
              /\ orders'[o].status = "delivered"
              /\ p # NULL
              /\ profit > 0)
             => /\ \E r \in partner_balances' :
                     /\ r.partner_id = p
                     /\ r.pending_balance = before + profit
                     /\ r.total_earned = before + profit
                /\ Len(partner_transactions') = Len(partner_transactions) + 1
                /\ partner_transactions'[Len(partner_transactions')].type = "sale"
                /\ partner_transactions'[Len(partner_transactions')].reference_id = o
                /\ partner_transactions'[Len(partner_transactions')].amount = profit
                /\ partner_transactions'[Len(partner_transactions')].partner_id = p]_vars

\* Both orders of one partner are delivered and the row holds both profits.
C10_Witness ==
  /\ orders["o1"].partner_id = orders["o2"].partner_id
  /\ orders["o1"].status = "delivered"
  /\ orders["o2"].status = "delivered"
  /\ PartnerProfit(orders["o1"].items, products) > 0
  /\ PartnerProfit(orders["o2"].items, products) > 0
  /\ \E r \in BalanceRows(orders["o1"].partner_id) :
       r.total_earned = PartnerProfit(orders["o1"].items, products)
                        + PartnerProfit(orders["o2"].items, products)

(***************************************************************************)
(* C11: every write of a partner's selling price is above the product's    *)
(* cost price: a step that creates or changes a partner_products row       *)
(* leaves it with selling_price > the cost price the product has.          *)
(***************************************************************************)
C11_PriceFloor ==
  [][\A r \in partner_products' :
       r \notin partner_products => r.selling_price > products[r.product_id]]_vars

\* The profit of the first n lines of order o at the cost prices of now.
RECURSIVE LineProfits(_, _)
LineProfits(o, n) ==
  IF n = 0 THEN 0
  ELSE LET line == orders[o].items[n]
       IN ((line.unit_price - products[line.product_id]) * line.quantity)
          + LineProfits(o, n - 1)

OrderProfit(o) == LineProfits(o, Len(orders[o].items))

TotalEarned(p) ==
  IF BalanceRows(p) = {} THEN 0 ELSE (CHOOSE r \in BalanceRows(p) : TRUE).total_earned

PendingBalance(p) ==
  IF BalanceRows(p) = {} THEN 0 ELSE (CHOOSE r \in BalanceRows(p) : TRUE).pending_balance

(***************************************************************************)
(* C12: when the UPDATE to 'delivered' of an order with a partner runs,    *)
(* the profit it is to post is the sum over the order's lines of           *)
(* (unit price - the product's cost price now) * quantity, and it is       *)
(* posted exactly when that sum is positive; when the delivery commits,    *)
(* pending_balance and total_earned have each grown by that profit and one *)
(* 'sale' transaction of that amount referring to the order is appended.   *)
(***************************************************************************)
C12_ProfitPosted ==
  [][\A o \in OrderIds :
       LET p == orders[o].partner_id
       IN /\ (lastUpdate' # lastUpdate /\ lastUpdate'.id = o /\ p # NULL
               /\ lastUpdate'.new = "delivered" /\ lastUpdate'.old # "delivered")
              => IF OrderProfit(o) > 0
                 THEN inflight'[o].pc # "none" /\ inflight'[o].profit = OrderProfit(o)
                 ELSE inflight'[o].pc = "none"
          /\ (inflight[o].pc # "none" /\ orders'[o].status = "delivered")
              => /\ PendingBalance(p)' = PendingBalance(p) + inflight[o].profit
                 /\ TotalEarned(p)' = TotalEarned(p) + inflight[o].profit
                 /\ Len(partner_transactions') = Len(partner_transactions) + 1
                 /\ SubSeq(partner_transactions', 1, Len(partner_transactions))
                      = partner_transactions
                 /\ LET sale == partner_transactions'[Len(partner_transactions')]
                    IN /\ sale.type = "sale"
                       /\ sale.partner_id = p
                       /\ sale.amount = inflight[o].profit
                       /\ sale.reference_id = o]_vars

\* Three units sold at 28 of a product that costs 20 were delivered: 24 posted.
C12_Witness ==
  /\ orders["o1"].status = "delivered"
  /\ orders["o1"].partner_id = "p1"
  /\ orders["o1"].items = <<Item("x", 28, 3)>>
  /\ products["x"] = 20
  /\ PendingBalance("p1") = 24
  /\ TotalEarned("p1") = 24
  /\ \E i \in 1..Len(partner_transactions) :
       /\ partner_transactions[i].type = "sale"
       /\ partner_transactions[i].amount = 24
       /\ partner_transactions[i].reference_id = "o1"

(***************************************************************************)
(* C13: the UPDATE to 'delivered' of a partner's order whose lines sum to  *)
(* a profit of zero or less delivers the order, appends no transaction and *)
(* leaves the partner's balance row, or its absence, as it was.            *)
(***************************************************************************)
C13_LossPostsNothing ==
  [][\A o \in OrderIds :
       (/\ lastUpdate' # lastUpdate
        /\ lastUpdate'.id = o
        /\ lastUpdate'.new = "delivered"
        /\ lastUpdate'.old # "delivered"
        /\ orders[o].partner_id # NULL
        /\ OrderProfit(o) <= 0)
       => /\ partner_transactions' = partner_transactions
          /\ partner_balances' = partner_balances
          /\ inflight' = inflight
          /\ orders'[o].status = "delivered"]_vars

\* An order sold at a loss of 5 was delivered and nothing was posted.
C13_Witness ==
  /\ lastUpdate = [id |-> "o1", old |-> "delivering", new |-> "delivered"]
  /\ orders["o1"].status = "delivered"
  /\ orders["o1"].partner_id = "p1"
  /\ orders["o1"].items = <<Item("x", 15, 1)>>
  /\ products["x"] = 20
  /\ partner_balances = {}
  /\ partner_transactions = <<>>

(***************************************************************************)
(* C14: the UPDATE to 'delivered' of an order that names no partner        *)
(* creates no balance row, changes no balance row and appends no           *)
(* transaction.                                                            *)
(***************************************************************************)
C14_NoPartnerPostsNothing ==
  [][\A o \in OrderIds :
       (orders[o].partner_id = NULL /\ orders[o].status # NoRow)
       => /\ (lastUpdate' # lastUpdate /\ lastUpdate'.id = o)
             => /\ partner_balances' = partner_balances
                /\ partner_transactions' = partner_transactions
                /\ inflight'[o].pc = "none"
          /\ (orders'[o].status = "delivered" /\ orders[o].status # "delivered")
             => /\ partner_balances' = partner_balances
                /\ partner_transactions' = partner_transactions]_vars

\* An order without a partner, sold above cost, was delivered: nothing posted.
C14_Witness ==
  /\ lastUpdate = [id |-> "o1", old |-> "delivering", new |-> "delivered"]
  /\ orders["o1"].status = "delivered"
  /\ orders["o1"].partner_id = NULL
  /\ orders["o1"].items = <<Item("x", 30, 10)>>
  /\ products["x"] = 20
  /\ partner_balances = {}
  /\ partner_transactions = <<>>

C16_BelowMinimumRefused ==
  [][\A i \in 1..Len(partner_withdrawals') :
       i > Len(partner_withdrawals)
       => \A r \in payment_settings :
            partner_withdrawals'[i].amount >= r.min_withdrawal_amount]_vars

RECURSIVE PaidSumOf(_, _)
PaidSumOf(rows, p) ==
  IF rows = <<>> THEN 0
  ELSE (IF Head(rows).partner_id = p /\ Head(rows).status = "paid"
        THEN Head(rows).amount ELSE 0)
       + PaidSumOf(Tail(rows), p)

TotalWithdrawn(p) ==
  IF BalanceRows(p) = {} THEN 0 ELSE (CHOOSE r \in BalanceRows(p) : TRUE).total_withdrawn

(***************************************************************************)
(* C18: in every reachable state each partner's total_withdrawn is the sum *)
(* of the amounts of that partner's withdrawals whose status is 'paid'.    *)
(***************************************************************************)
C18_WithdrawnIsPaidSum ==
  \A p \in Partners : TotalWithdrawn(p) = PaidSumOf(partner_withdrawals, p)

OrderTransitions ==
  {<<"pending", "confirmed">>, <<"confirmed", "preparing">>, <<"preparing", "ready">>,
   <<"ready", "delivering">>, <<"delivering", "delivered">>}
  \cup ({"pending", "confirmed", "preparing", "ready"} \X {"cancelled"})

(***************************************************************************)
(* C19: every change of an order's status is one step forward along        *)
(* pending, confirmed, preparing, ready, delivering, delivered, or a       *)
(* cancellation from pending, confirmed, preparing or ready; delivered and *)
(* cancelled are never left.                                               *)
(***************************************************************************)
C19_OrderPipeline ==
  [][\A o \in OrderIds :
       (orders[o].status # NoRow /\ orders'[o].status # orders[o].status)
       => <<orders[o].status, orders'[o].status>> \in OrderTransitions]_vars

RECURSIVE SaleCountOf(_, _)
SaleCountOf(rows, o) ==
  IF rows = <<>> THEN 0
  ELSE (IF Head(rows).type = "sale" /\ Head(rows).reference_id = o THEN 1 ELSE 0)
       + SaleCountOf(Tail(rows), o)

(***************************************************************************)
(* C20: at most one 'sale' transaction ever refers to an order, whatever   *)
(* status updates the order receives.                                      *)
(***************************************************************************)
C20_SettledOnce ==
  \A o \in OrderIds : SaleCountOf(partner_transactions, o) <= 1

(***************************************************************************)
(* C21: in every reachable state every order that has a partner, is        *)
(* 'delivered' and has a positive profit has a 'sale' transaction that     *)
(* refers to it.                                                           *)
(***************************************************************************)
C21_DeliveredIsPosted ==
  \A o \in OrderIds :
    (/\ orders[o].status = "delivered"
     /\ orders[o].partner_id # NULL
     /\ OrderProfit(o) > 0)
    => SaleCountOf(partner_transactions, o) >= 1

(***************************************************************************)
(* C22: finalization is all-or-nothing: in every reachable state a         *)
(* withdrawal marked 'paid' has its amount in the partner's                *)
(* total_withdrawn and a 'withdrawal' transaction that refers to it.       *)
(***************************************************************************)
C22_FinalizationAllOrNothing ==
  \A i \in 1..Len(partner_withdrawals) :
    LET w == partner_withdrawals[i]
    IN w.status = "paid"
       => /\ TotalWithdrawn(w.partner_id) >= w.amount
          /\ \E j \in 1..Len(partner_transactions) :
               /\ partner_transactions[j].type = "withdrawal"
               /\ partner_transactions[j].reference_id = w.id

(***************************************************************************)
(* C23: a request is atomic: in every reachable state, while none of a     *)
(* partner's withdrawals has been resolved, the amounts of the pending     *)
(* withdrawals are exactly what has been moved out of available_balance:   *)
(* available_balance plus the pending amounts is what has matured.         *)
(***************************************************************************)
C23_RequestAtomic ==
  \A p \in Partners :
    (\A i \in 1..Len(partner_withdrawals) :
        partner_withdrawals[i].partner_id = p => partner_withdrawals[i].status = "pending")
    => Available(p) + PendingSum(p) = TotalEarned(p) - PendingBalance(p)

RECURSIVE WithdrawalEntriesOf(_, _)
WithdrawalEntriesOf(rows, w) ==
  IF rows = <<>> THEN 0
  ELSE (IF Head(rows).type = "withdrawal" /\ Head(rows).reference_id = w THEN 1 ELSE 0)
       + WithdrawalEntriesOf(Tail(rows), w)

(***************************************************************************)
(* C24: of the resolutions attempted on one pending withdrawal only one    *)
(* takes effect: at most one 'withdrawal' transaction is ever appended for *)
(* a withdrawal, a partner's total_withdrawn never exceeds the amounts of  *)
(* the withdrawals that are paid, and a resolved withdrawal is not         *)
(* resolved again.                                                         *)
(***************************************************************************)
C24_OneResolutionWins ==
  /\ [](\A w \in WithdrawalIds : WithdrawalEntriesOf(partner_transactions, w) <= 1)
  /\ [](\A p \in Partners : TotalWithdrawn(p) <= PaidSumOf(partner_withdrawals, p))
  /\ [][\A s \in AdminSessions :
          (resolving'[s] # resolving[s] /\ resolving'[s].pc = "balance")
          => resolving'[s].old = "pending"]_vars

(***************************************************************************)
(* C25: the profit posted for an order depends only on the unit prices     *)
(* frozen in its line items: the lines of an order never change once       *)
(* written, a change to partner_products changes no order, no balance and  *)
(* no settlement under way, and the profit an UPDATE to 'delivered' sets   *)
(* out to post is the one computed from the order's own lines, whatever    *)
(* the partner's selling prices are by then.                               *)
(***************************************************************************)
C25_FrozenPrices ==
  [][/\ \A o \in OrderIds :
          orders[o].items # <<>> => orders'[o].items = orders[o].items
     /\ partner_products' # partner_products
          => /\ orders' = orders
             /\ inflight' = inflight
             /\ partner_balances' = partner_balances
             /\ partner_transactions' = partner_transactions
     /\ \A o \in OrderIds :
          (inflight[o].pc = "none" /\ inflight'[o].pc # "none")
          => inflight'[o].profit = OrderProfit(o)]_vars

\* The partner's price is 35 while an order sold at 28 is being settled: the
\* settlement is posting 24.
C25_Witness ==
  /\ orders["o1"].items = <<Item("x", 28, 3)>>
  /\ products["x"] = 20
  /\ partner_products = {[partner_id |-> "p1", product_id |-> "x", selling_price |-> 35]}
  /\ inflight["o1"].pc # "none"
  /\ inflight["o1"].profit = 24

(***************************************************************************)
(* C27: an order, once created, is never deleted: no step removes an       *)
(* order row, and every 'sale' transaction refers to an order that exists. *)
(***************************************************************************)
C27_OrdersNeverDeleted ==
  /\ [](\A i \in 1..Len(partner_transactions) :
          partner_transactions[i].type = "sale"
          => orders[partner_transactions[i].reference_id].status # NoRow)
  /\ [][\A o \in OrderIds :
          orders[o].status # NoRow => orders'[o].status # NoRow]_vars

\* Partner b's balance row, transactions and withdrawals are after the step
\* what they were before it.
UntouchedBy(b) ==
  /\ BalanceRows(b)' = BalanceRows(b)
  /\ Len(partner_transactions') >= Len(partner_transactions)
  /\ Len(partner_withdrawals') >= Len(partner_withdrawals)
  /\ \A i \in 1..Len(partner_transactions') :
       IF i <= Len(partner_transactions)
       THEN partner_transactions[i].partner_id = b
            => partner_transactions'[i] = partner_transactions[i]
       ELSE partner_transactions'[i].partner_id # b
  /\ \A i \in 1..Len(partner_withdrawals') :
       IF i <= Len(partner_withdrawals)
       THEN partner_withdrawals[i].partner_id = b
            => partner_withdrawals'[i] = partner_withdrawals[i]
       ELSE partner_withdrawals'[i].partner_id # b

\* The step is a delivery of an order of partner a, or a withdrawal request
\* of partner a, or a resolution of a withdrawal of partner a.
ActsFor(a) ==
  \/ \E o \in OrderIds :
       /\ orders[o].partner_id = a
       /\ (lastUpdate' # lastUpdate /\ lastUpdate'.id = o) \/ inflight'[o] # inflight[o]
  \/ \E s \in PartnerSessions : SessionPartner(s) = a /\ request'[s] # request[s]
  \/ \E i \in 1..Len(partner_withdrawals) :
       /\ partner_withdrawals[i].partner_id = a
       /\ \/ partner_withdrawals'[i] # partner_withdrawals[i]
          \/ \E s \in AdminSessions :
               /\ resolving'[s] # resolving[s]
               /\ resolving[s].id = partner_withdrawals[i].id

C30_StoreOpenAgree ==
  (storeSettings # {} /\ ~storeOpen.isLoading) => menuIsOpen = storeOpen.isOpen

\* The store is open by either of the two decisions, taken on the settings
\* as they are stored and at the time it is.
StoreIsOpen ==
  \/ isOpen(StoreSettings, now)
  \/ useIsStoreOpen({store_info}, business_hours, now).isOpen

(***************************************************************************)
(* C28: an order is only created at a moment when the store is open, also  *)
(* when the cart was filled while the store was open.                      *)
(***************************************************************************)
C28_ClosedStoreTakesNoOrder ==
  [][\A o \in OrderIds :
       (orders[o].status = NoRow /\ orders'[o].status # NoRow) => StoreIsOpen]_vars

====
